---- MODULE Spec2Model ----
(***************************************************************************)
(* Payment orchestration with fallback routing.                            *)
(*                                                                         *)
(* Part I   : the FastAPI application (main.py) with its GPT5Router        *)
(*            (intelligent_router.py) and the three mock processors.       *)
(* Part II  : ProcessorRegistry (processor_registry.py).                   *)
(* Part III : GPT5FallbackRouter (gpt5_fallback_router.py) and             *)
(*            GPT5AuditLogger (gpt5_audit_system.py).                      *)
(*                                                                         *)
(* Amounts are integers in units of 0.10 currency units; rates of the      *)
(* registry are integers in units of 0.001; confidences are percentages.   *)
(***************************************************************************)
EXTENDS Integers, Sequences, FiniteSets, TLC

\* ------------------------------------------------------------------ bounds
\* payment and freeze requests the application handles in one run
MaxRequests == 2
\* mutating operations on the processor registry in one run
MaxRegOps == 2
\* routing calls and audit log calls in one run
MaxRouterOps == 2
\* decisions the decision engine is asked for in one run
MaxEngineCalls == 2
\* operations of the health monitor (check rounds and snapshots)
MaxMonitorOps == 2
\* passes of the monitor's _simulate_realistic_changes loop (one per minute)
MaxSimulateRounds == 26
\* direct record_failure calls on the router
MaxRecordCalls == 2
\* the largest previous_routing_attempts and max_allowed_attempts of a drawn context
MaxAttemptCount == 4
MaxAttemptLimit == 5

\* --------------------------------------------------------------- constants
\* insertion order of the `processors` dict of main.py
ProcOrder == <<"stripe", "paypal", "visa">>
ProcIds == {"stripe", "paypal", "visa"}

\* fee_percentage of each processor's default config, in tenths of a percent
FeePercentage == [stripe |-> 29, paypal |-> 29, visa |-> 24]

SupportedCurrencies ==
  [stripe |-> {"USD", "EUR", "GBP", "CAD", "AUD", "JPY", "SGD", "HKD", "CNY", "INR", "MXN", "BRL"},
   paypal |-> {"USD", "EUR", "GBP", "CAD", "AUD", "JPY", "CNY"},
   visa   |-> {"USD", "EUR", "GBP", "CAD", "AUD", "JPY", "SGD", "HKD", "INR", "CNY"}]

\* min_amount / max_amount in units of 0.10 (0.01 is below one unit: every
\* positive amount of the model passes the paypal and visa minimum)
StripeMinAmount == 5
PayPalMaxAmount == 100000000
VisaMaxAmount == 500000000

\* thresholds of process_payment and of the router, in units of 0.10
MinimalBelow == 100
HighRiskAbove == 50000
UrgencyAbove == 10000
VerbosityLowBelow == 1000

InitialSuccessRate == 95

\* RoutingContext.max_allowed_attempts
max_allowed_attempts == 3

\* the payment requests the model submits (amount in units of 0.10)
Payments ==
  { [amount |-> 3,      currency |-> "USD"],
    [amount |-> 2000,   currency |-> "USD"],
    [amount |-> 150000, currency |-> "USD"],
    [amount |-> 2000,   currency |-> "SGD"] }

\* --------------------------------------------------------------- variables
VARIABLES
  pstatus,            \* processors[pid].status (ProcessorStatus of processors/base.py)
  processor_health,   \* gpt5_router.processor_health
  failure_history,    \* gpt5_router.failure_history
  expired,            \* number of oldest failure_history entries older than one hour
  routing_decisions,  \* gpt5_router.routing_decisions
  metrics,            \* processors[pid].metrics: success_rate = num / max(1,total)
  pc,                 \* position of the in-flight process_payment call
  pay,                \* locals of the in-flight process_payment call
  result,             \* the last PaymentResponseModel returned, with its attempt history
  started,            \* number of process_payment calls started
  freezes,            \* number of freeze requests handled
  calls               \* history: the record_failure / record_success calls made so far

\* the event loop: the process_payment coroutines suspended at an await while
\* another request is served
VARIABLES parked

loopVars == <<parked>>

mainVars == <<pstatus, processor_health, failure_history, expired, routing_decisions, calls,
              metrics, pc, pay, result, started, freezes>>

VARIABLES
  registry,           \* ProcessorRegistry.processors: status and health of each record
  last_chain,         \* the last get_fallback_chain call: its argument and its result
  regLast,            \* the last registry operation: its name, processor id and kind
  regOps              \* number of mutating registry operations performed

regVars == <<registry, last_chain, regLast, regOps>>

VARIABLES
  router_decisions,   \* GPT5FallbackRouter.routing_decisions
  returned,           \* what each route_payment_with_fallback call was given and returned
  events,             \* GPT5AuditLogger.events
  audit_file,         \* ids of the events written to the audit file
  utcnow              \* the clock read by datetime.utcnow(), one tick per operation

routerVars == <<router_decisions, returned, events, audit_file, utcnow>>

VARIABLES
  context,            \* the PaymentContext of the routing call whose efforts are chosen
  chosen,             \* the parameters chosen for the successive attempts of that call
  decision_history    \* GPT5DecisionEngine.decision_history

engineVars == <<context, chosen, decision_history>>

VARIABLES
  heap,               \* the ProcessorMetrics objects of the monitor, by reference
  health_history,     \* PaymentProcessorMonitor.health_history
  snapshot,           \* the dict a caller got from get_all_processor_status
  monitorOps          \* number of monitor operations so far

monitorVars == <<heap, health_history, snapshot, monitorOps>>

vars == <<mainVars, regVars, routerVars, engineVars, loopVars, monitorVars>>

\* what the operations of one component leave alone
otherThanMain == <<regVars, routerVars, engineVars, loopVars, monitorVars>>
otherThanReg == <<mainVars, routerVars, engineVars, loopVars, monitorVars>>
otherThanRouter == <<mainVars, regVars, engineVars, loopVars, monitorVars>>
otherThanEngine == <<mainVars, regVars, routerVars, loopVars, monitorVars>>
otherThanMonitor == <<mainVars, regVars, routerVars, engineVars, loopVars>>

\* ------------------------------------------------------------------ helpers
Max(a, b) == IF a >= b THEN a ELSE b
Min(a, b) == IF a <= b THEN a ELSE b

RECURSIVE Insert(_, _, _)
\* insert x into the sorted sequence s, after every element that is not greater
Insert(x, s, less) ==
  IF s = <<>> THEN <<x>>
  ELSE IF less[<<x, Head(s)>>] THEN <<x>> \o s
       ELSE <<Head(s)>> \o Insert(x, Tail(s), less)

RECURSIVE SortAcc(_, _, _)
SortAcc(rest, acc, less) ==
  IF rest = <<>> THEN acc
  ELSE SortAcc(Tail(rest), Insert(Head(rest), acc, less), less)

\* list.sort(key=...) of Python: stable, ascending in the key order `less`
StableSort(s, less) == SortAcc(s, <<>>, less)

Range(s) == {s[i] : i \in 1..Len(s)}

\* ------------------------------------------------- processors (mock gateways)
\* the early returns of XProcessor.process_payment: unsupported currency or
\* amount outside the limits gives FAILED before any metric is touched
Rejects(p, request) ==
  \/ request.currency \notin SupportedCurrencies[p]
  \/ p = "stripe" /\ request.amount < StripeMinAmount
  \/ p = "paypal" /\ (request.amount < 1 \/ request.amount > PayPalMaxAmount)
  \/ p = "visa" /\ (request.amount < 1 \/ request.amount > VisaMaxAmount)

\* PaymentProcessor.update_metrics on the success_rate; the rate is num/den
update_metrics(m, success) ==
  LET total == m.total + 1
      den == Max(1, m.total)
      success_count == (m.num * Max(1, total - 1)) \div den
  IN [num |-> success_count + (IF success THEN 1 ELSE 0), total |-> total]

\* rate of a is higher than rate of b
RateGreater(a, b) == a.num * Max(1, b.total) > b.num * Max(1, a.total)
RateEqual(a, b) == a.num * Max(1, b.total) = b.num * Max(1, a.total)

\* ---------------------------------------------------------------- GPT5Router
\* the values of FailureType
FailureTypes ==
  {"account_frozen", "rate_limited", "network_error", "declined", "insufficient_funds",
   "fraud_suspected", "compliance_issue", "temporary_outage"}

\* mutant: only an ACCOUNT_FROZEN failure freezes, the permanent flag is not read
record_failure_IgnoresPermanent(health, pid, failure_type, permanent) ==
  IF pid \in DOMAIN health
  THEN [health EXCEPT ![pid].failure_count = @ + 1,
                      ![pid].frozen = IF failure_type = "account_frozen" THEN TRUE ELSE @]
  ELSE health

\* mutant: the increment is written from a stale count, losing earlier updates
record_failure_Overwrites(health, pid, failure_type, permanent) ==
  IF pid \in DOMAIN health
  THEN [health EXCEPT ![pid].failure_count = 1,
                      ![pid].frozen = IF permanent \/ failure_type = "account_frozen"
                                      THEN TRUE ELSE @]
  ELSE health

record_failure(health, pid, failure_type, permanent) ==
  IF pid \in DOMAIN health
  THEN [health EXCEPT ![pid].failure_count = @ + 1,
                      ![pid].frozen = IF permanent \/ failure_type = "account_frozen"
                                      THEN TRUE ELSE @]
  ELSE health

failure_entry(pid, failure_type, permanent) ==
  [processor |-> pid, failure_type |-> failure_type, permanent |-> permanent]

record_success(health, pid, now) ==
  IF pid \in DOMAIN health
  THEN [health EXCEPT ![pid].last_success = now, ![pid].failure_count = 0]
  ELSE health

\* the call history kept beside the router: a call of record_failure for pid,
\* a call of record_success for pid, and the reset written by the unfreeze endpoint
NoCalls ==
  [failures |-> 0,
   since_success |-> [p \in ProcIds |-> 0],
   since_reset |-> [p \in ProcIds |-> 0]]

called_record_failure(c, pid) ==
  [failures |-> c.failures + 1,
   since_success |-> [p \in ProcIds |-> c.since_success[p] + (IF p = pid THEN 1 ELSE 0)],
   since_reset |-> [p \in ProcIds |-> c.since_reset[p] + (IF p = pid THEN 1 ELSE 0)]]

called_record_success(c, pid) ==
  [c EXCEPT !.since_success = [p \in ProcIds |-> IF p = pid THEN 0 ELSE @[p]],
            !.since_reset = [p \in ProcIds |-> IF p = pid THEN 0 ELSE @[p]]]

unfreeze_reset(c, pid) ==
  [c EXCEPT !.since_reset = [p \in ProcIds |-> IF p = pid THEN 0 ELSE @[p]]]

\* _prepare_gpt5_context: the failures of the last hour
recent_failures == SubSeq(failure_history, expired + 1, Len(failure_history))

\* _select_best_processor
SelectBestProcessor(processors, failures, snap) ==
  LET failed_ids == {failures[i].processor : i \in {j \in 1..Len(failures) : ~failures[j].permanent}}
      filtered == SelectSeq(processors, LAMBDA p : p \notin failed_ids)
      available == IF filtered = <<>> THEN processors ELSE filtered
      less == [pr \in ProcIds \X ProcIds |->
                 \/ RateGreater(snap[pr[1]], snap[pr[2]])
                 \/ /\ RateEqual(snap[pr[1]], snap[pr[2]])
                    /\ FeePercentage[pr[1]] < FeePercentage[pr[2]]]
      sorted == StableSort(available, less)
  IN IF sorted # <<>> THEN Head(sorted) ELSE "stripe"

\* mutant: the chain does not leave the primary out
GenerateFallbackChain_KeepsPrimary(primary, amount) == ProcOrder

\* mutant: the chain holds one fallback only
GenerateFallbackChain_OneFallback(primary, amount) ==
  SubSeq(SelectSeq(ProcOrder, LAMBDA p : p # primary), 1, 1)

\* _generate_fallback_chain
GenerateFallbackChain(primary, amount) ==
  LET fallbacks == SelectSeq(ProcOrder, LAMBDA p : p # primary)
      less == [pr \in ProcIds \X ProcIds |-> pr[1] # "visa" /\ pr[2] = "visa"]
  IN IF amount > UrgencyAbove THEN StableSort(fallbacks, less) ELSE fallbacks

\* _call_gpt5_reasoning (the simulated oracle)
CallGpt5Reasoning(processors, failures, snap, frozen, amount, effort, verbosity) ==
  IF frozen
  THEN IF "paypal" \in Range(processors)
       THEN [selected_processor |-> "paypal", confidence |-> 95,
             fallback_chain |-> <<"paypal", "visa">>,
             reasoning_effort |-> effort, verbosity |-> verbosity]
       ELSE [selected_processor |-> "visa", confidence |-> 90,
             fallback_chain |-> <<"visa">>,
             reasoning_effort |-> effort, verbosity |-> verbosity]
  ELSE LET best == SelectBestProcessor(processors, failures, snap)
       IN [selected_processor |-> best, confidence |-> 85,
           fallback_chain |-> GenerateFallbackChain(best, amount),
           reasoning_effort |-> effort, verbosity |-> verbosity]

\* lines 109-143 of process_payment: context, available processors, effort, decision
MakeRoutingDecision(request) ==
  LET account_frozen == pstatus["stripe"] = "failed"
      available_processors == SelectSeq(ProcOrder, LAMBDA p : pstatus[p] # "inactive")
      effort0 == IF request.amount < MinimalBelow THEN "minimal" ELSE "medium"
      effort == IF account_frozen \/ request.amount > HighRiskAbove THEN "high" ELSE effort0
      verbosity == IF request.amount < VerbosityLowBelow THEN "low" ELSE "medium"
  IN CallGpt5Reasoning(available_processors, recent_failures, metrics, account_frozen,
                       request.amount, effort, verbosity)

\* ------------------------------------------------------------ process_payment
NoPay ==
  [request |-> [amount |-> 0, currency |-> "USD"],
   decision |-> [selected_processor |-> "stripe", confidence |-> 0, fallback_chain |-> <<>>,
                 reasoning_effort |-> "medium", verbosity |-> "medium"],
   sel_frozen |-> FALSE, idx |-> 0, cur |-> "stripe", fbIdx |-> 0,
   status |-> "none", fallback_attempted |-> FALSE, attempts |-> <<>>]

NoResult ==
  [payment |-> 0, success |-> FALSE, processor_used |-> "stripe", primary |-> "stripe",
   sel_frozen |-> FALSE, status |-> "none", fallback_attempted |-> FALSE, attempts |-> <<>>]

\* one payment attempt: the processor, its role and what the health book said
\* about it at the moment the attempt started
AttemptRec(p, role) ==
  [processor |-> p, role |-> role,
   frozen |-> processor_health[p].frozen, active |-> pstatus[p] = "active"]

RECURSIVE WalkFallback_NoStatusCheck(_, _, _, _)
\* mutant: the loop does not look at the status of the fallback processor
WalkFallback_NoStatusCheck(chain, i, request, acc) ==
  IF i > Len(chain) THEN [next |-> 0, attempts |-> acc.attempts, status |-> acc.status]
  ELSE LET fid == chain[i]
       IN IF fid \in ProcIds
          THEN LET att == Append(acc.attempts, AttemptRec(fid, "fallback"))
               IN IF Rejects(fid, request)
                  THEN WalkFallback_NoStatusCheck(chain, i + 1, request,
                                                  [attempts |-> att, status |-> "failed"])
                  ELSE [next |-> i, attempts |-> att, status |-> acc.status]
          ELSE WalkFallback_NoStatusCheck(chain, i + 1, request, acc)

RECURSIVE WalkFallback(_, _, _, _)
\* the `for fallback_id in routing_decision.fallback_chain` loop of process_payment,
\* run from position i up to the next await: processors that are not ACTIVE are
\* skipped, a processor that rejects the request answers FAILED at once, any other
\* ACTIVE processor is awaited (next = its position; 0 = the loop is over)
WalkFallback(chain, i, request, acc) ==
  IF i > Len(chain) THEN [next |-> 0, attempts |-> acc.attempts, status |-> acc.status]
  ELSE LET fid == chain[i]
       IN IF fid \in ProcIds /\ pstatus[fid] = "active"
          THEN LET att == Append(acc.attempts, AttemptRec(fid, "fallback"))
               IN IF Rejects(fid, request)
                  THEN WalkFallback(chain, i + 1, request, [attempts |-> att, status |-> "failed"])
                  ELSE [next |-> i, attempts |-> att, status |-> acc.status]
          ELSE WalkFallback(chain, i + 1, request, acc)

\* mutant: the response names the default processor
Response_NamesDefault(p, decisions) ==
  [payment |-> started, success |-> p.status = "success",
   processor_used |-> "stripe",
   primary |-> p.decision.selected_processor, sel_frozen |-> p.sel_frozen,
   status |-> p.status, fallback_attempted |-> p.fallback_attempted,
   attempts |-> p.attempts]

\* lines 177-191: the PaymentResponseModel, with the attempt history of the call
Response(p, decisions) ==
  [payment |-> started, success |-> p.status = "success",
   processor_used |-> decisions[p.idx].selected_processor,
   primary |-> p.decision.selected_processor, sel_frozen |-> p.sel_frozen,
   status |-> p.status, fallback_attempted |-> p.fallback_attempted,
   attempts |-> p.attempts]

\* the values of PaymentStatus
PaymentStatuses == {"pending", "processing", "success", "failed", "timeout", "cancelled"}

\* lines 152-175 after the primary attempt answered FAILED or TIMEOUT
AfterPrimaryFailedWith(p0, decisions, status) ==
  LET primary == p0.decision.selected_processor
      failure_type == IF status = "failed" THEN "declined" ELSE "network_error"
      w == WalkFallback(p0.decision.fallback_chain, 1, p0.request,
                        [attempts |-> p0.attempts, status |-> status])
      p1 == [p0 EXCEPT !.status = w.status, !.attempts = w.attempts,
                       !.fallback_attempted = TRUE, !.fbIdx = w.next,
                       !.cur = IF w.next > 0 THEN p0.decision.fallback_chain[w.next] ELSE @]
  IN /\ failure_history' = Append(failure_history, failure_entry(primary, failure_type, FALSE))
     /\ processor_health' = record_failure(processor_health, primary, failure_type, FALSE)
     /\ calls' = called_record_failure(calls, primary)
     /\ routing_decisions' = decisions
     /\ IF w.next = 0
        THEN /\ pc' = "idle" /\ pay' = NoPay /\ result' = Response(p1, decisions)
        ELSE /\ pc' = "fallback_wait" /\ pay' = p1 /\ UNCHANGED result

\* lines 152-175 after the primary attempt answered FAILED
AfterPrimaryFailed(p0, decisions) == AfterPrimaryFailedWith(p0, decisions, "failed")

\* POST /payments/process up to the first await (the oracle call)
StartPayment(request) ==
  /\ UNCHANGED otherThanMain
  /\ pc = "idle"
  /\ started + freezes < MaxRequests
  /\ LET decision == MakeRoutingDecision(request)
     IN pay' = [NoPay EXCEPT !.request = request, !.decision = decision,
                             !.sel_frozen = processor_health[decision.selected_processor].frozen]
  /\ pc' = "routing"
  /\ started' = started + 1
  /\ result' = NoResult
  /\ UNCHANGED <<pstatus, processor_health, failure_history, expired, routing_decisions,
                 metrics, freezes, calls>>

\* make_routing_decision returns: the decision is appended to the history and the
\* primary processor is called
RoutingReturns ==
  /\ UNCHANGED otherThanMain
  /\ pc = "routing"
  /\ LET decisions == Append(routing_decisions, pay.decision)
         primary == pay.decision.selected_processor
         p0 == [pay EXCEPT !.idx = Len(decisions), !.cur = primary,
                           !.attempts = Append(@, AttemptRec(primary, "primary"))]
     IN IF Rejects(primary, pay.request)
        THEN AfterPrimaryFailed(p0, decisions)
        ELSE /\ pc' = "primary_wait"
             /\ pay' = p0
             /\ routing_decisions' = decisions
             /\ UNCHANGED <<processor_health, failure_history, result, calls>>
  /\ UNCHANGED <<pstatus, expired, metrics, started, freezes>>

\* the primary processor answers (SUCCESS or FAILED, after update_metrics)
PrimaryFinish(success) ==
  /\ UNCHANGED otherThanMain
  /\ pc = "primary_wait"
  /\ metrics' = [metrics EXCEPT ![pay.cur] = update_metrics(@, success)]
  /\ IF success
     THEN LET p1 == [pay EXCEPT !.status = "success"]
          IN /\ processor_health' = record_success(processor_health, pay.decision.selected_processor, started)
             /\ calls' = called_record_success(calls, pay.decision.selected_processor)
             /\ pc' = "idle" /\ pay' = NoPay
             /\ result' = Response(p1, routing_decisions)
             /\ UNCHANGED <<failure_history, routing_decisions>>
     ELSE AfterPrimaryFailed(pay, routing_decisions)
  /\ UNCHANGED <<pstatus, expired, started, freezes>>

\* lines 150-175 for a primary response of any PaymentStatus: FAILED and TIMEOUT
\* take the failure branch, every other status takes the else branch; the
\* processor's own metrics are updated for SUCCESS and FAILED, the two answers
\* the processors of this repository give
PrimaryReturns(status) ==
  /\ pc = "primary_wait"
  /\ IF status \in {"success", "failed"}
     THEN PrimaryFinish(status = "success")
     ELSE /\ UNCHANGED otherThanMain
          /\ IF status = "timeout"
             THEN AfterPrimaryFailedWith(pay, routing_decisions, status)
             ELSE LET p1 == [pay EXCEPT !.status = status]
                  IN /\ processor_health' = record_success(processor_health, pay.decision.selected_processor, started)
                     /\ calls' = called_record_success(calls, pay.decision.selected_processor)
                     /\ pc' = "idle" /\ pay' = NoPay
                     /\ result' = Response(p1, routing_decisions)
                     /\ UNCHANGED <<failure_history, routing_decisions>>
          /\ UNCHANGED <<pstatus, expired, metrics, started, freezes>>

\* the awaited fallback processor answers
FallbackFinish(success) ==
  /\ UNCHANGED otherThanMain
  /\ pc = "fallback_wait"
  /\ metrics' = [metrics EXCEPT ![pay.cur] = update_metrics(@, success)]
  /\ IF success
     THEN LET decisions == [routing_decisions EXCEPT ![pay.idx].selected_processor = pay.cur]
              p1 == [pay EXCEPT !.status = "success"]
          IN /\ processor_health' = record_success(processor_health, pay.cur, started)
             /\ calls' = called_record_success(calls, pay.cur)
             /\ routing_decisions' = decisions
             /\ pc' = "idle" /\ pay' = NoPay
             /\ result' = Response(p1, decisions)
     ELSE LET w == WalkFallback(pay.decision.fallback_chain, pay.fbIdx + 1, pay.request,
                                [attempts |-> pay.attempts, status |-> "failed"])
              p1 == [pay EXCEPT !.status = w.status, !.attempts = w.attempts, !.fbIdx = w.next,
                                !.cur = IF w.next > 0 THEN pay.decision.fallback_chain[w.next] ELSE @]
          IN /\ UNCHANGED <<processor_health, routing_decisions, calls>>
             /\ IF w.next = 0
                THEN /\ pc' = "idle" /\ pay' = NoPay /\ result' = Response(p1, routing_decisions)
                ELSE /\ pc' = "fallback_wait" /\ pay' = p1 /\ UNCHANGED result
  /\ UNCHANGED <<pstatus, failure_history, expired, started, freezes>>

\* POST /processors/{id}/freeze
FreezeEndpoint(p) ==
  /\ UNCHANGED otherThanMain
  /\ started + freezes < MaxRequests
  /\ freezes' = freezes + 1
  /\ pstatus' = [pstatus EXCEPT ![p] = "failed"]
  /\ failure_history' = Append(failure_history, failure_entry(p, "account_frozen", TRUE))
  /\ processor_health' = record_failure(processor_health, p, "account_frozen", TRUE)
  /\ calls' = called_record_failure(calls, p)
  /\ UNCHANGED <<expired, routing_decisions, metrics, pc, pay, result, started>>

\* POST /processors/{id}/unfreeze
UnfreezeEndpoint(p) ==
  /\ UNCHANGED otherThanMain
  /\ pstatus' = [pstatus EXCEPT ![p] = "active"]
  /\ processor_health' = [processor_health EXCEPT ![p].frozen = FALSE, ![p].failure_count = 0]
  /\ calls' = unfreeze_reset(calls, p)
  /\ UNCHANGED <<failure_history, expired, routing_decisions, metrics, pc, pay, result,
                 started, freezes>>

\* time passes: the oldest failure still inside the one-hour window leaves it
TimePasses ==
  /\ UNCHANGED otherThanMain
  /\ expired < Len(failure_history)
  /\ expired' = expired + 1
  /\ UNCHANGED <<pstatus, processor_health, failure_history, routing_decisions, metrics,
                 pc, pay, result, started, freezes, calls>>

\* gpt5_router.record_failure called with any processor id, type and flag
RecordFailure(pid, failure_type, permanent) ==
  /\ UNCHANGED otherThanMain
  /\ calls.failures < MaxRecordCalls
  /\ failure_history' = Append(failure_history, failure_entry(pid, failure_type, permanent))
  /\ processor_health' = record_failure(processor_health, pid, failure_type, permanent)
  /\ calls' = called_record_failure(calls, pid)
  /\ UNCHANGED <<pstatus, expired, routing_decisions, metrics, pc, pay, result, started, freezes>>

\* gpt5_router.record_success called with any processor id
RecordSuccess(pid) ==
  /\ UNCHANGED otherThanMain
  /\ processor_health' = record_success(processor_health, pid, started)
  /\ calls' = called_record_success(calls, pid)
  /\ UNCHANGED <<pstatus, failure_history, expired, routing_decisions, metrics, pc, pay,
                 result, started, freezes>>

\* the event loop leaves the coroutine of the current request at its await and
\* is free to serve another request
Suspend ==
  /\ pc \in {"routing", "primary_wait", "fallback_wait"}
  /\ parked' = Append(parked, [pc |-> pc, pay |-> pay])
  /\ pc' = "idle"
  /\ pay' = NoPay
  /\ UNCHANGED <<pstatus, processor_health, failure_history, expired, routing_decisions,
                 metrics, result, started, freezes, calls>>
  /\ UNCHANGED <<regVars, routerVars, engineVars, monitorVars>>

\* the event loop resumes the k-th suspended coroutine
Resume(k) ==
  /\ pc = "idle"
  /\ k \in 1..Len(parked)
  /\ pc' = parked[k].pc
  /\ pay' = parked[k].pay
  /\ parked' = SubSeq(parked, 1, k - 1) \o SubSeq(parked, k + 1, Len(parked))
  /\ UNCHANGED <<pstatus, processor_health, failure_history, expired, routing_decisions,
                 metrics, result, started, freezes, calls>>
  /\ UNCHANGED <<regVars, routerVars, engineVars, monitorVars>>


\* ------------------------------------------------------- ProcessorRegistry
RegStatuses == {"healthy", "degraded", "frozen", "maintenance"}

\* _initialize_processors: success_rate in 0.001, avg_response_time in ms,
\* freeze_risk_score in 0.1
InitialRegistry ==
  [stripe |-> [status |-> "healthy", success_rate |-> 987, avg_response_time |-> 245,
               failure_count_24h |-> 3, freeze_risk_score |-> 21, fallback_priority |-> 1],
   paypal |-> [status |-> "healthy", success_rate |-> 983, avg_response_time |-> 312,
               failure_count_24h |-> 7, freeze_risk_score |-> 17, fallback_priority |-> 2],
   visa   |-> [status |-> "healthy", success_rate |-> 995, avg_response_time |-> 189,
               failure_count_24h |-> 1, freeze_risk_score |-> 8, fallback_priority |-> 3]]

\* the ids the operations are called with: the registered ones and an unknown one
RegInputs == ProcIds \cup {"square"}
FailureKinds == {"freeze", "degraded", "timeout", "other"}

\* the draws of restore_processor: <<freeze_risk_score, success_rate,
\* avg_response_time, failure_count_24h>> at the lower and at the upper ends of
\* uniform(0.5, 2.0), uniform(0.98, 0.995), randint(150, 300) and randint(0, 5)
RestoreDraws == {<<5, 980, 150, 0>>, <<20, 995, 300, 5>>}

\* the draws of one update_health_metrics pass for one processor:
\* <<change of success_rate, change of avg_response_time>>
UpdateDraws == {<<-1, -10>>, <<0, 0>>, <<1, 10>>}

\* get_fallback_chain(failed_processor, context) on the records `recs`
get_fallback_chain(recs, failed_processor) ==
  LET available == SelectSeq(ProcOrder,
                     LAMBDA p : p # failed_processor /\ recs[p].status # "frozen")
      less == [pr \in ProcIds \X ProcIds |->
                 LET a == recs[pr[1]]
                     b == recs[pr[2]]
                     pa == a.fallback_priority
                     pb == b.fallback_priority
                 IN \/ pa < pb
                    \/ pa = pb /\ a.success_rate > b.success_rate
                    \/ pa = pb /\ a.success_rate = b.success_rate
                               /\ a.avg_response_time < b.avg_response_time]
  IN StableSort(available, less)

\* simulate_processor_failure on one record
simulate_failure(r, failure_type) ==
  CASE failure_type = "freeze" ->
         [r EXCEPT !.status = "frozen", !.freeze_risk_score = 100]
    [] failure_type = "degraded" ->
         [r EXCEPT !.status = "degraded",
                   !.success_rate = Max(850, @ - 100),
                   !.avg_response_time = @ + 200]
    [] failure_type = "timeout" ->
         [r EXCEPT !.failure_count_24h = @ + 5, !.avg_response_time = @ + 100]
    [] OTHER -> r

\* mutant: the restore leaves the status as it is
restore_KeepsStatus(r, draw) ==
  [r EXCEPT !.freeze_risk_score = draw[1], !.success_rate = draw[2],
            !.avg_response_time = draw[3], !.failure_count_24h = draw[4]]

\* restore_processor on one record
restore(r, draw) ==
  [r EXCEPT !.status = "healthy", !.freeze_risk_score = draw[1], !.success_rate = draw[2],
            !.avg_response_time = draw[3], !.failure_count_24h = draw[4]]

\* mutant: the variation is applied whatever the status of the record
update_health_AnyStatus(r, draw) ==
  [r EXCEPT !.success_rate = Max(950, Min(999, @ + draw[1])),
            !.avg_response_time = Max(100, Min(1000, @ + draw[2]))]

\* one processor's turn in the loop of update_health_metrics
update_health(r, draw) ==
  IF r.status = "healthy"
  THEN [r EXCEPT !.success_rate = Max(950, Min(999, @ + draw[1])),
                 !.avg_response_time = Max(100, Min(1000, @ + draw[2]))]
  ELSE r

\* the status of the record an operation is called on, before the operation
StatusOf(id) == IF id \in DOMAIN registry THEN registry[id].status ELSE "none"

SimulateProcessorFailure(id, failure_type) ==
  /\ regOps < MaxRegOps
  /\ regOps' = regOps + 1
  /\ registry' = IF id \in DOMAIN registry
                 THEN [registry EXCEPT ![id] = simulate_failure(@, failure_type)]
                 ELSE registry
  /\ regLast' = [op |-> "simulate", id |-> id, kind |-> failure_type, was |-> StatusOf(id)]
  /\ UNCHANGED <<last_chain, otherThanReg>>

RestoreProcessor(id) ==
  /\ regOps < MaxRegOps
  /\ regOps' = regOps + 1
  /\ \/ /\ id \in DOMAIN registry
        /\ \E draw \in RestoreDraws : registry' = [registry EXCEPT ![id] = restore(@, draw)]
     \/ /\ id \notin DOMAIN registry
        /\ UNCHANGED registry
  /\ regLast' = [op |-> "restore", id |-> id, kind |-> "none", was |-> StatusOf(id)]
  /\ UNCHANGED <<last_chain, otherThanReg>>

\* one pass of the background loop of update_health_metrics
UpdateHealthMetrics ==
  /\ regOps < MaxRegOps
  /\ regOps' = regOps + 1
  /\ \E draws \in [ProcIds -> UpdateDraws] :
       registry' = [p \in ProcIds |-> update_health(registry[p], draws[p])]
  /\ regLast' = [op |-> "update", id |-> "all", kind |-> "none", was |-> "none"]
  /\ UNCHANGED <<last_chain, otherThanReg>>

GetFallbackChain(failed_processor) ==
  /\ last_chain' = [failed_processor |-> failed_processor, at |-> regOps,
                    out |-> get_fallback_chain(registry, failed_processor)]
  /\ UNCHANGED <<registry, regLast, regOps, otherThanReg>>

RegInit ==
  /\ registry = InitialRegistry
  /\ last_chain = [failed_processor |-> "none", at |-> 0, out |-> <<>>]
  /\ regLast = [op |-> "init", id |-> "none", kind |-> "none", was |-> "none"]
  /\ regOps = 0

\* registries a caller of get_fallback_chain may hold: every status of the
\* enumeration, with priorities and metrics that tie and that differ
RegistryRecords ==
  [status : RegStatuses, success_rate : {983, 987}, avg_response_time : {189, 245},
   failure_count_24h : {3}, freeze_risk_score : {21}, fallback_priority : {1, 2}]

ChainRegInit ==
  /\ registry \in [ProcIds -> RegistryRecords]
  /\ last_chain = [failed_processor |-> "none", at |-> 0, out |-> <<>>]
  /\ regLast = [op |-> "init", id |-> "none", kind |-> "none", was |-> "none"]
  /\ regOps = 0

ChainNext == \E id \in RegInputs : GetFallbackChain(id)

RegNext ==
  \/ \E id \in RegInputs, k \in FailureKinds : SimulateProcessorFailure(id, k)
  \/ \E id \in RegInputs : RestoreProcessor(id)
  \/ UpdateHealthMetrics
  \/ \E id \in RegInputs : GetFallbackChain(id)

\* ------------------------------------- GPT5FallbackRouter, GPT5AuditLogger
\* the list both _extract_selected_processor and
\* _create_emergency_fallback_decision go through
RouterProcessors == <<"stripe", "paypal", "visa", "square">>

PaymentIds == {"pay_1", "pay_2"}

\* the routing contexts the calls are made with
RoutingContexts ==
  { [failed_processors |-> f[1], previous_routing_attempts |-> f[2],
     max_allowed_attempts |-> max_allowed_attempts] :
    f \in { <<{}, 0>>, <<{"stripe"}, 1>>, <<{"paypal"}, 1>>, <<{"stripe", "paypal"}, 2>>,
            <<{"stripe", "paypal", "visa", "square"}, 2>> } }

\* What the text of an oracle response holds, as the extraction reads it:
\*   word       the \w+ after "selected processor:" ("" when the pattern is absent)
\*   mentions   the processor names that occur somewhere in the lowercased text
\*   confidence the first number matched by a confidence pattern as <<"number", n>>
\*              with n in 0.01, or <<"keyword", k>>, or <<"none", 0>>
ResponseTexts ==
  { [word |-> "paypal", mentions |-> {"paypal"},           confidence |-> <<"number", 95>>],
    [word |-> "stripe", mentions |-> {"stripe", "visa"},   confidence |-> <<"number", 8500>>],
    [word |-> "adyen",  mentions |-> {"visa", "square"},   confidence |-> <<"none", 0>>],
    [word |-> "",       mentions |-> {},                   confidence |-> <<"keyword", "low">>],
    [word |-> "",       mentions |-> {"square", "paypal"}, confidence |-> <<"number", 15000>>] }

\* the outcomes of the awaited chat completion: it raises (error or timeout),
\* answers without content, or answers with a text
OracleOutcomes ==
  {[kind |-> "raise"], [kind |-> "no_content"]}
    \cup {[kind |-> "text", text |-> t] : t \in ResponseTexts}

\* mutant: the last allowed attempt still counts as a fallback
_determine_decision_type_UpToLimit(routing_context) ==
  IF routing_context.previous_routing_attempts = 0 THEN "primary"
  ELSE IF routing_context.previous_routing_attempts < routing_context.max_allowed_attempts
       THEN "fallback"
       ELSE "emergency"

_determine_decision_type(routing_context) ==
  IF routing_context.previous_routing_attempts = 0 THEN "primary"
  ELSE IF routing_context.previous_routing_attempts < routing_context.max_allowed_attempts - 1
       THEN "fallback"
       ELSE "emergency"

\* routing contexts over every pair of attempt count and attempt limit
DecisionTypeContexts ==
  { [failed_processors |-> {}, previous_routing_attempts |-> a, max_allowed_attempts |-> m] :
    a \in 0..MaxAttemptCount, m \in 1..MaxAttemptLimit }

\* the first element of the sequence hits, or default when it is empty
FirstOf(hits, default) == IF hits = <<>> THEN default ELSE hits[1]

_extract_selected_processor(text) ==
  IF text.word \in Range(RouterProcessors)
  THEN text.word
  ELSE FirstOf(SelectSeq(RouterProcessors, LAMBDA p : p \in text.mentions), "stripe")

\* confidences are in 0.01
_extract_confidence_score(text) ==
  LET kind == text.confidence[1]
      v == text.confidence[2]
  IN CASE kind = "number" -> Min(100, Max(0, IF v > 100 THEN v \div 100 ELSE v))
       [] kind = "keyword" -> (CASE v = "high" -> 90 [] v = "medium" -> 70 [] OTHER -> 50)
       [] OTHER -> 75

_parse_routing_decision(text, payment_id, routing_context, reasoning_effort, decision_type, tokens_used) ==
  [decision_id |-> utcnow,
   payment_id |-> payment_id,
   timestamp |-> utcnow,
   selected_processor |-> _extract_selected_processor(text),
   confidence_score |-> _extract_confidence_score(text),
   decision_type |-> decision_type,
   reasoning_effort |-> reasoning_effort,
   tokens_used |-> tokens_used,
   fallback_depth |-> routing_context.previous_routing_attempts]

\* the processor _create_emergency_fallback_decision selects
emergency_selection(failed_processors) ==
  FirstOf(SelectSeq(RouterProcessors, LAMBDA p : p \notin failed_processors), "stripe")

_create_emergency_fallback_decision(payment_id, routing_context) ==
  [decision_id |-> utcnow,
   payment_id |-> payment_id,
   timestamp |-> utcnow,
   selected_processor |-> emergency_selection(routing_context.failed_processors),
   confidence_score |-> 60,
   decision_type |-> "emergency",
   reasoning_effort |-> "emergency",
   tokens_used |-> 0,
   fallback_depth |-> routing_context.previous_routing_attempts]

\* route_payment_with_fallback with the default reasoning_effort
RoutePaymentWithFallback(payment_id, routing_context, oracle) ==
  /\ utcnow < MaxRouterOps
  /\ utcnow' = utcnow + 1
  /\ LET decision_type == _determine_decision_type(routing_context)
         parsed == oracle.kind = "text"
         decision == IF parsed
                     THEN _parse_routing_decision(oracle.text, payment_id, routing_context,
                                                  "medium", decision_type, 1)
                     ELSE _create_emergency_fallback_decision(payment_id, routing_context)
     IN /\ router_decisions' = IF parsed THEN Append(router_decisions, decision)
                               ELSE router_decisions
        /\ returned' = Append(returned, [routing_context |-> routing_context,
                                         oracle |-> oracle.kind,
                                         outcome |-> "returned",
                                         decision |-> decision])
  /\ UNCHANGED <<events, audit_file, otherThanRouter>>

\* mutant: an event whose write fails is dropped from memory
LogGpt5RoutingDecision_LostOnWriteError(payment_id, processor_id, with_metadata, write_ok) ==
  /\ utcnow < MaxRouterOps
  /\ utcnow' = utcnow + 1
  /\ events' = IF write_ok
               THEN Append(events, [id |-> utcnow, timestamp |-> utcnow,
                                    event_type |-> "payment_routing",
                                    payment_id |-> payment_id, processor_id |-> processor_id,
                                    gpt5_metadata |-> with_metadata])
               ELSE events
  /\ audit_file' = IF write_ok THEN Append(audit_file, utcnow) ELSE audit_file
  /\ UNCHANGED <<router_decisions, returned, otherThanRouter>>

\* log_gpt5_routing_decision, called by the owner of the logger; the write to
\* the audit file succeeds or raises inside _write_to_file
LogGpt5RoutingDecision(payment_id, processor_id, with_metadata, write_ok) ==
  /\ utcnow < MaxRouterOps
  /\ utcnow' = utcnow + 1
  /\ events' = Append(events, [id |-> utcnow, timestamp |-> utcnow,
                               event_type |-> "payment_routing",
                               payment_id |-> payment_id, processor_id |-> processor_id,
                               gpt5_metadata |-> with_metadata])
  /\ audit_file' = IF write_ok THEN Append(audit_file, utcnow) ELSE audit_file
  /\ UNCHANGED <<router_decisions, returned, otherThanRouter>>

\* log_processor_failure: an event without GPT-5 metadata
LogProcessorFailure(payment_id, processor_id, write_ok) ==
  /\ utcnow < MaxRouterOps
  /\ utcnow' = utcnow + 1
  /\ events' = Append(events, [id |-> utcnow, timestamp |-> utcnow,
                               event_type |-> "processor_failure",
                               payment_id |-> payment_id, processor_id |-> processor_id,
                               gpt5_metadata |-> FALSE])
  /\ audit_file' = IF write_ok THEN Append(audit_file, utcnow) ELSE audit_file
  /\ UNCHANGED <<router_decisions, returned, otherThanRouter>>

\* generate_payment_audit_trail(payment_id) on the events `evs`
generate_payment_audit_trail(evs, payment_id) ==
  LET payment_events == SelectSeq(evs, LAMBDA e : e.payment_id = payment_id)
      earlier == [pr \in Range(payment_events) \X Range(payment_events) |->
                    pr[1].timestamp < pr[2].timestamp]
  IN IF payment_events = <<>>
     THEN [error |-> TRUE, gpt5_decisions |-> 0,
           gpt5_reasoning_chain |-> <<>>, complete_timeline |-> <<>>]
     ELSE [error |-> FALSE,
           gpt5_decisions |->
             Len(SelectSeq(payment_events, LAMBDA e : e.event_type = "payment_routing")),
           gpt5_reasoning_chain |-> SelectSeq(payment_events, LAMBDA e : e.gpt5_metadata),
           complete_timeline |-> StableSort(payment_events, earlier)]

RouterInit ==
  /\ router_decisions = <<>>
  /\ returned = <<>>
  /\ events = <<>>
  /\ audit_file = <<>>
  /\ utcnow = 0

RouterNext ==
  \/ \E payment_id \in PaymentIds, routing_context \in RoutingContexts, oracle \in OracleOutcomes :
       RoutePaymentWithFallback(payment_id, routing_context, oracle)
  \/ \E payment_id \in PaymentIds, processor_id \in {"stripe", "paypal"},
        with_metadata \in BOOLEAN, write_ok \in BOOLEAN :
       LogGpt5RoutingDecision(payment_id, processor_id, with_metadata, write_ok)
  \/ \E payment_id \in PaymentIds, write_ok \in BOOLEAN :
       LogProcessorFailure(payment_id, "stripe", write_ok)


\* ------------------------------------------- the escalation policies
\* GPT5DecisionEngine._determine_reasoning_effort and _determine_verbosity
\* (gpt5_decision_engine.py) and GPT5Router._determine_reasoning_effort
\* (intelligent_router.py), applied to the successive attempts of one routing
\* call: each failed attempt adds a processor to failed_processors.
Efforts == <<"minimal", "low", "medium", "high">>

\* the position of an effort in minimal < low < medium < high
EffortRank(e) == CHOOSE i \in 1..Len(Efforts) : Efforts[i] = e

DecisionUrgency == {"routine", "normal", "elevated", "critical"}

\* thresholds of GPT5DecisionEngine._determine_reasoning_effort
EngineLowBelow == 5000
EngineHighAbove == 50000
\* threshold of GPT5DecisionEngine._determine_verbosity
EngineVerbosityAbove == 10000
\* thresholds of GPT5Router._determine_reasoning_effort
RouterMinimalBelow == 100
RouterLowBelow == 1000
RouterHighAbove == 100000

\* the flags GPT5Router._determine_reasoning_effort reads from its context
ContextFlags == {"high_risk", "account_frozen", "multiple_failures", "compliance_check"}

PolicyAmounts == {50, 500, 3000, 5000, 20000, 50000, 85000, 250000}

\* mutant: the routine rule applies once a processor has failed
engine_determine_reasoning_effort_AfterFailure(c) ==
  IF c.urgency = "routine" /\ c.failed_processors # {} THEN "minimal"
  ELSE IF c.amount < EngineLowBelow /\ Cardinality(c.failed_processors) <= 1 THEN "low"
  ELSE IF \/ c.amount > EngineHighAbove
          \/ Cardinality(c.failed_processors) > 1
          \/ c.urgency = "elevated"
       THEN "high"
       ELSE "medium"

engine_determine_reasoning_effort(c) ==
  IF c.urgency = "routine" /\ c.failed_processors = {} THEN "minimal"
  ELSE IF c.amount < EngineLowBelow /\ Cardinality(c.failed_processors) <= 1 THEN "low"
  ELSE IF \/ c.amount > EngineHighAbove
          \/ Cardinality(c.failed_processors) > 1
          \/ c.urgency = "elevated"
       THEN "high"
       ELSE "medium"

engine_determine_verbosity(c) ==
  IF c.urgency = "critical" \/ Cardinality(c.failed_processors) > 2 THEN "high"
  ELSE IF c.amount > EngineVerbosityAbove \/ c.failed_processors # {} THEN "medium"
  ELSE "low"

\* GPT5Router._determine_reasoning_effort: context["failures"] holds the
\* failures of the call so far
router_determine_reasoning_effort(c) ==
  IF c.amount < RouterMinimalBelow /\ c.failed_processors = {} THEN "minimal"
  ELSE IF c.amount < RouterLowBelow /\ "high_risk" \notin c.flags THEN "low"
  ELSE IF \/ c.amount > RouterHighAbove
          \/ c.flags \cap {"account_frozen", "multiple_failures", "high_risk",
                           "compliance_check"} # {}
       THEN "high"
       ELSE "medium"

\* the parameters are chosen for the next attempt of the call
DetermineParameters ==
  /\ Len(chosen) = Cardinality(context.failed_processors)
  /\ chosen' = Append(chosen, [failed |-> Cardinality(context.failed_processors),
                               engine_effort |-> engine_determine_reasoning_effort(context),
                               engine_verbosity |-> engine_determine_verbosity(context),
                               router_effort |-> router_determine_reasoning_effort(context)])
  /\ UNCHANGED <<context, decision_history, otherThanEngine>>

\* the attempt on processor p fails: the caller adds it to failed_processors
AttemptFails(p) ==
  /\ Len(chosen) = Cardinality(context.failed_processors) + 1
  /\ p \notin context.failed_processors
  /\ context' = [context EXCEPT !.failed_processors = @ \cup {p}]
  /\ UNCHANGED <<chosen, decision_history, otherThanEngine>>

\* What the oracle gives GPT5DecisionEngine.make_payment_routing_decision: the call
\* raises, or answers a text without braces, a text whose braces hold no valid
\* JSON, or a JSON object.  Of the object: its selected_processor, whether it
\* has the key "confidence", the value of that key in 0.01, and the number of
\* entries of its reasoning_chain.
EngineResponses ==
  {[kind |-> "raise"], [kind |-> "text"], [kind |-> "bad_json"]}
    \cup [kind : {"json"}, selected_processor : {"paypal"}, has_confidence : {TRUE},
          confidence : {-10, 95, 170, 9500}, reasoning_steps : {0, 1}]
    \cup [kind : {"json"}, selected_processor : {"paypal"}, has_confidence : {FALSE},
          confidence : {0}, reasoning_steps : {0, 1}]

_create_fallback_decision(reasoning_effort) ==
  [decision_type |-> "payment_routing_fallback", selected_option |-> "stripe",
   confidence |-> 50, reasoning_effort |-> reasoning_effort, tokens_used |-> 0]

\* _parse_gpt5_response: a text without braces is given a reasoning_chain of
\* one entry; _extract_chain_of_thought reads `random`, a name the module does
\* not import, for each entry of the chain, and the NameError is caught
_parse_gpt5_response(response, reasoning_effort) ==
  IF response.kind = "bad_json" THEN _create_fallback_decision(reasoning_effort)
  ELSE LET parsed == IF response.kind = "json" THEN response
                     ELSE [selected_processor |-> "stripe", has_confidence |-> TRUE,
                           confidence |-> 70, reasoning_steps |-> 1]
       IN IF parsed.reasoning_steps > 0
          THEN _create_fallback_decision(reasoning_effort)
          ELSE [decision_type |-> "payment_routing",
                selected_option |-> parsed.selected_processor,
                confidence |-> IF parsed.has_confidence THEN parsed.confidence ELSE 70,
                reasoning_effort |-> reasoning_effort, tokens_used |-> 1]

\* make_payment_routing_decision for the attempt whose parameters were chosen last
MakePaymentRoutingDecision(response) ==
  /\ Len(decision_history) < MaxEngineCalls
  /\ Len(chosen) = Cardinality(context.failed_processors) + 1
  /\ Len(decision_history) < Len(chosen)
  /\ decision_history' =
       IF response.kind = "raise" THEN decision_history
       ELSE Append(decision_history,
                   _parse_gpt5_response(response, chosen[Len(chosen)].engine_effort))
  /\ UNCHANGED <<context, chosen, otherThanEngine>>

EngineInit ==
  /\ context = [amount |-> 500, urgency |-> "normal", flags |-> {}, failed_processors |-> {}]
  /\ chosen = <<>>
  /\ decision_history = <<>>

\* every context a routing call may start with
PolicyEngineInit ==
  /\ context \in [amount : PolicyAmounts, urgency : DecisionUrgency,
                  flags : SUBSET ContextFlags, failed_processors : {{}}]
  /\ chosen = <<>>
  /\ decision_history = <<>>

PolicyNext ==
  \/ DetermineParameters
  \/ \E p \in Range(RouterProcessors) : AttemptFails(p)

\* ------------------------------------------------ PaymentProcessorMonitor
MonitorNames == <<"stripe", "paypal", "visa", "square">>

\* self.processors: each name is bound once, in _initialize_processors, to one
\* ProcessorMetrics object; the model names the object by its position
processors_ref == [stripe |-> 1, paypal |-> 2, visa |-> 3, square |-> 4]

\* processor_configs: success_rate in units of 0.0001, freeze_risk_score in tenths
processor_configs ==
  [stripe |-> [base_success_rate |-> 9890, base_response_time |-> 245, freeze_risk |-> 21],
   paypal |-> [base_success_rate |-> 9830, base_response_time |-> 312, freeze_risk |-> 18],
   visa   |-> [base_success_rate |-> 9950, base_response_time |-> 189, freeze_risk |-> 9],
   square |-> [base_success_rate |-> 9760, base_response_time |-> 334, freeze_risk |-> 28]]

\* failure_count_24h = random.randint(0, 3): the draws the model starts from
InitialFailureDraws ==
  { [stripe |-> 0, paypal |-> 0, visa |-> 0, square |-> 0],
    [stripe |-> 3, paypal |-> 0, visa |-> 1, square |-> 2] }

\* what a health check of one processor reports
HealthOutcomes == {"healthy", "degraded", "down"}

\* the response time a health check measures, in ms
MeasuredResponseTime == 400

\* _update_processor_metrics on one ProcessorMetrics object; `history` is
\* health_history before the result is appended
_update_processor_metrics(m, name, outcome, history) ==
  LET success == outcome = "healthy"
      recent == SelectSeq(SubSeq(history, Max(1, Len(history) - 49), Len(history)),
                          LAMBDA h : h.processor = name)
      successful == Len(SelectSeq(recent, LAMBDA h : h.success))
  IN [m EXCEPT
        !.avg_response_time_ms = (@ * 8 + MeasuredResponseTime * 2) \div 10,
        !.success_rate = IF success THEN Min(10000, (@ * 95) \div 100 + 500)
                         ELSE Max(0, (@ * 95) \div 100),
        !.failure_count_24h = IF success THEN @ ELSE @ + 1,
        !.freeze_risk_score = IF outcome = "down" THEN Min(100, @ + 5)
                              ELSE IF outcome = "healthy" THEN Max(0, @ - 1) ELSE @,
        !.uptime_percentage = IF recent # <<>> THEN (successful * 1000) \div Len(recent) ELSE @]

RECURSIVE ProcessResults(_, _, _, _)
\* the `for result in results` loop of _continuous_health_checks from position i
ProcessResults(i, outcomes, h, history) ==
  IF i > Len(MonitorNames) THEN [heap |-> h, health_history |-> history]
  ELSE LET name == MonitorNames[i]
           ref == processors_ref[name]
       IN ProcessResults(i + 1, outcomes,
                         [h EXCEPT ![ref] = _update_processor_metrics(@, name, outcomes[name], history)],
                         Append(history, [processor |-> name, success |-> outcomes[name] = "healthy"]))

\* one round of _continuous_health_checks: every processor is checked and the
\* results are applied to the ProcessorMetrics objects in place
ContinuousHealthChecks(outcomes) ==
  /\ monitorOps < MaxMonitorOps
  /\ monitorOps' = monitorOps + 1
  /\ LET r == ProcessResults(1, outcomes, heap, health_history)
     IN /\ heap' = r.heap
        /\ health_history' = r.health_history
  /\ UNCHANGED <<snapshot, otherThanMonitor>>

\* one processor's turn in a pass of _simulate_realistic_changes; `hit` is the
\* 5% draw of a temporary degradation (current_load is not kept in the model)
simulate_change(m, hit) ==
  LET d == IF hit
           THEN [m EXCEPT !.success_rate = (@ * 95) \div 100,
                          !.avg_response_time_ms = (@ * 12) \div 10,
                          !.freeze_risk_score = @ + 3]
           ELSE m
  IN [d EXCEPT !.success_rate = IF @ < 9800 THEN @ + 100 ELSE @,
               !.avg_response_time_ms = IF @ > 300 THEN (@ * 99) \div 100 ELSE @]

\* one pass of _simulate_realistic_changes over all processors; `degraded` are
\* the processors the degradation draw hits in this pass
SimulateRealisticChanges(degraded) ==
  /\ monitorOps < MaxSimulateRounds
  /\ monitorOps' = monitorOps + 1
  /\ heap' = [ref \in DOMAIN heap |-> simulate_change(heap[ref], MonitorNames[ref] \in degraded)]
  /\ UNCHANGED <<health_history, snapshot, otherThanMonitor>>

\* get_all_processor_status: self.processors.copy() copies the dict, not the
\* ProcessorMetrics objects it refers to; `seen` is what the caller reads at once
get_all_processor_status ==
  [taken |-> TRUE,
   refs |-> processors_ref,
   seen |-> [name \in Range(MonitorNames) |-> heap[processors_ref[name]]]]

GetAllProcessorStatus ==
  /\ monitorOps < MaxMonitorOps
  /\ monitorOps' = monitorOps + 1
  /\ snapshot' = get_all_processor_status
  /\ UNCHANGED <<heap, health_history, otherThanMonitor>>

\* reading the metrics of `name` through the dict the caller holds
ReadSnapshot(name) == heap[snapshot.refs[name]]

MonitorInitFrom(draw) ==
  /\ heap = [ref \in 1..Len(MonitorNames) |->
            LET name == MonitorNames[ref]
            IN [success_rate |-> processor_configs[name].base_success_rate,
                avg_response_time_ms |-> processor_configs[name].base_response_time,
                freeze_risk_score |-> processor_configs[name].freeze_risk,
                uptime_percentage |-> 999,
                failure_count_24h |-> draw[name]]]
  /\ health_history = <<>>
  /\ snapshot = [taken |-> FALSE, refs |-> processors_ref,
                 seen |-> [name \in Range(MonitorNames) |-> heap[processors_ref[name]]]]
  /\ monitorOps = 0

\* the monitor as the other components find it
MonitorInit == MonitorInitFrom([name \in Range(MonitorNames) |-> 0])

\* the monitor after any of the draws of _initialize_processors
MonitorDrawInit == \E draw \in InitialFailureDraws : MonitorInitFrom(draw)

MonitorNext ==
  \/ \E outcomes \in [Range(MonitorNames) -> HealthOutcomes] : ContinuousHealthChecks(outcomes)
  \/ GetAllProcessorStatus

MainInit ==
  /\ pstatus = [p \in ProcIds |-> "active"]
  /\ processor_health = [p \in ProcIds |-> [frozen |-> FALSE, last_success |-> 0, failure_count |-> 0]]
  /\ failure_history = <<>>
  /\ expired = 0
  /\ routing_decisions = <<>>
  /\ metrics = [p \in ProcIds |-> [num |-> InitialSuccessRate, total |-> 0]]
  /\ pc = "idle"
  /\ pay = NoPay
  /\ result = NoResult
  /\ started = 0
  /\ freezes = 0
  /\ calls = NoCalls

LoopInit == parked = <<>>

Init == MainInit /\ RegInit /\ RouterInit /\ EngineInit /\ LoopInit /\ MonitorInit

Next ==
  \/ \E request \in Payments : StartPayment(request)
  \/ RoutingReturns
  \/ \E success \in BOOLEAN : PrimaryFinish(success)
  \/ \E success \in BOOLEAN : FallbackFinish(success)
  \/ \E p \in ProcIds : FreezeEndpoint(p)
  \/ \E p \in ProcIds : UnfreezeEndpoint(p)
  \/ TimePasses

Spec == Init /\ [][Next]_vars

\* the registry on its own
SpecRegistry == Init /\ [][RegNext]_vars

\* get_fallback_chain applied to every registry of RegistryRecords
ChainInit == MainInit /\ ChainRegInit /\ RouterInit /\ EngineInit /\ LoopInit /\ MonitorInit

SpecChain == ChainInit /\ [][ChainNext]_vars

\* the operator freezing and restoring processors: in the registry, and
\* through the freeze and unfreeze endpoints of the application
AdminNext ==
  \/ \E id \in ProcIds : SimulateProcessorFailure(id, "freeze")
  \/ \E id \in ProcIds : RestoreProcessor(id)
  \/ \E id \in ProcIds : GetFallbackChain(id)
  \/ \E p \in ProcIds : FreezeEndpoint(p)
  \/ \E p \in ProcIds : UnfreezeEndpoint(p)

SpecAdmin == Init /\ [][AdminNext]_vars

\* the fallback router and the audit logger on their own
SpecRouter == Init /\ [][RouterNext]_vars

\* the escalation policies applied along the attempts of a routing call
PolicyInit == MainInit /\ RegInit /\ RouterInit /\ PolicyEngineInit /\ LoopInit /\ MonitorInit

SpecPolicy == PolicyInit /\ [][PolicyNext]_vars

\* the decision engine: parameters are chosen, the oracle is asked, attempts fail
EngineNext ==
  \/ DetermineParameters
  \/ \E p \in Range(RouterProcessors) : AttemptFails(p)
  \/ \E response \in EngineResponses : MakePaymentRoutingDecision(response)

SpecEngine == Init /\ [][EngineNext]_vars

\* the health monitor and the callers of get_all_processor_status
MonitorSpecInit ==
  MainInit /\ RegInit /\ RouterInit /\ EngineInit /\ LoopInit /\ MonitorDrawInit

SpecMonitor == MonitorSpecInit /\ [][MonitorNext]_vars

\* route_payment_with_fallback over every pair of attempt count and limit
DecisionTypeNext ==
  \E routing_context \in DecisionTypeContexts,
     oracle \in {o \in OracleOutcomes : o.kind = "text" => o.text.word = "paypal"} :
    RoutePaymentWithFallback("pay_1", routing_context, oracle)

SpecDecisionType == Init /\ [][DecisionTypeNext]_vars

\* the router's health book under direct record_failure / record_success calls
HealthBookNext ==
  \/ \E pid \in RegInputs, failure_type \in FailureTypes, permanent \in BOOLEAN :
       RecordFailure(pid, failure_type, permanent)
  \/ \E pid \in RegInputs : RecordSuccess(pid)

SpecHealthBook == Init /\ [][HealthBookNext]_vars

\* the monitor's simulation loop running pass after pass
DriftNext ==
  \E degraded \in {{}, {"square"}} : SimulateRealisticChanges(degraded)

SpecDrift == Init /\ [][DriftNext]_vars

\* process_payment against processors that may answer with any PaymentStatus
StatusNext ==
  \/ \E request \in Payments : StartPayment(request)
  \/ RoutingReturns
  \/ \E status \in PaymentStatuses : PrimaryReturns(status)
  \/ \E success \in BOOLEAN : FallbackFinish(success)

SpecStatus == Init /\ [][StatusNext]_vars

\* several process_payment coroutines in flight on one event loop, with the
\* freeze and unfreeze endpoints served in between
ConcurrentNext ==
  \/ \E request \in Payments : StartPayment(request)
  \/ RoutingReturns
  \/ \E success \in BOOLEAN : PrimaryFinish(success)
  \/ \E success \in BOOLEAN : FallbackFinish(success)
  \/ \E p \in ProcIds : FreezeEndpoint(p)
  \/ \E p \in ProcIds : UnfreezeEndpoint(p)
  \/ Suspend
  \/ \E k \in 1..MaxRequests : Resume(k)

SpecConcurrent == Init /\ [][ConcurrentNext]_vars

\* the awaited calls of a payment complete: the event loop resumes every coroutine
FairSpec ==
  /\ Spec
  /\ WF_vars(RoutingReturns)
  /\ WF_vars(\E success \in BOOLEAN : PrimaryFinish(success))
  /\ WF_vars(\E success \in BOOLEAN : FallbackFinish(success))

\* ------------------------------------------------------------------- claims
\* the attempt histories the model holds: the in-flight call's and the last returned
Histories == {pay.attempts, result.attempts}

\* C1: a processor that is frozen (freeze endpoint, not yet restored) is never
\* selected as primary by process_payment and no payment attempt, primary or
\* fallback, is started against it.
C1_FrozenNeverSelectedOrAttempted ==
  /\ ~pay.sel_frozen
  /\ ~result.sel_frozen
  /\ \A h \in Histories : \A i \in 1..Len(h) : ~h[i].frozen

\* C3: within one process_payment call the processors attempted (primary, then
\* each fallback) are pairwise distinct.
C3_NoProcessorAttemptedTwice ==
  \A h \in Histories : \A i, j \in 1..Len(h) : i # j => h[i].processor # h[j].processor

\* C4: one call makes at most max_allowed_attempts payment attempts, and every
\* call that has started returns a response.
C4_AttemptBoundAndTermination ==
  /\ [](\A h \in Histories : Len(h) <= max_allowed_attempts)
  /\ ((pc # "idle") ~> (pc = "idle"))

\* a call returned a failure after three attempts
C4_Witness ==
  /\ result.payment > 0
  /\ ~result.success
  /\ Len(result.attempts) = max_allowed_attempts

\* C2: whatever the registry holds and whichever processor is excluded, the
\* list returned by get_fallback_chain holds no processor whose status is
\* FROZEN and none whose status is MAINTENANCE.
C2_ChainExcludesFrozenAndMaintenance ==
  \A i \in 1..Len(last_chain.out) :
    registry[last_chain.out[i]].status \notin {"frozen", "maintenance"}

\* the routing calls in which the oracle call raised
OracleRaised == {i \in 1..Len(returned) : returned[i].oracle = "raise"}

\* the routing calls whose decision was substituted for the oracle's
Substituted == {i \in 1..Len(returned) : returned[i].oracle \in {"raise", "no_content"}}

\* the routing calls whose decision was parsed from the oracle's text
Parsed == {i \in 1..Len(returned) : returned[i].oracle = "text"}

\* C5: when the oracle call raises inside route_payment_with_fallback, the
\* call still returns, and the decision it returns has decision_type EMERGENCY
\* and confidence 0.5.
C5_OracleFailureGivesEmergencyHalfConfidence ==
  \A i \in OracleRaised :
    /\ returned[i].outcome = "returned"
    /\ returned[i].decision.decision_type = "emergency"
    /\ returned[i].decision.confidence_score = 50

\* C6: the decision substituted when the oracle fails or answers nothing usable
\* selects the first processor of the list that has not failed, and never a
\* processor of failed_processors, also when every processor has failed.
C6_SubstituteAvoidsFailedProcessors ==
  \A i \in Substituted :
    LET failed == returned[i].routing_context.failed_processors
        selected == returned[i].decision.selected_processor
    IN /\ selected \notin failed
       /\ \A k \in 1..Len(RouterProcessors) :
            RouterProcessors[k] = selected =>
              \A j \in 1..(k - 1) : RouterProcessors[j] \in failed

\* C7: the decision parsed from an oracle response selects a processor that
\* the router knows and that is not in the context's failed_processors.
C7_ParsedSelectionIsKnownAndNotFailed ==
  \A i \in Parsed :
    /\ returned[i].decision.selected_processor \in Range(RouterProcessors)
    /\ returned[i].decision.selected_processor
         \notin returned[i].routing_context.failed_processors

\* the decisions returned while routing one payment
DecisionsFor(payment_id) ==
  SelectSeq(returned, LAMBDA r : r.decision.payment_id = payment_id)

\* C8: every decision returned while routing a payment is recorded exactly
\* once, in the router's history and in the audit trail of the payment, and
\* the trail lists its events by ascending timestamp.
C8_EveryDecisionRecordedOnceInOrder ==
  \A payment_id \in PaymentIds :
    LET trail == generate_payment_audit_trail(events, payment_id)
        made == DecisionsFor(payment_id)
    IN /\ trail.gpt5_decisions = Len(made)
       /\ \A i \in 1..Len(made) :
            Cardinality({k \in 1..Len(router_decisions) :
                           router_decisions[k].decision_id = made[i].decision.decision_id}) = 1
       /\ \A i, j \in 1..Len(trail.complete_timeline) :
            i < j => trail.complete_timeline[i].timestamp
                       <= trail.complete_timeline[j].timestamp

\* C9: a frozen processor that is restored has status HEALTHY and a
\* success_rate of at least 0.95, and every fallback-chain query that does not
\* exclude it contains it again; a frozen processor for which the unfreeze
\* endpoint is called is ACTIVE and its health entry is no longer frozen.
C9_FreezeThenRestoreIsReversible ==
  /\ [](regLast.op = "restore" /\ regLast.was = "frozen" =>
          LET a == regLast.id
          IN /\ registry[a].status = "healthy"
             /\ registry[a].success_rate >= 950
             /\ \A e \in RegInputs \ {a} : a \in Range(get_fallback_chain(registry, e))
             /\ (last_chain.at = regOps /\ last_chain.failed_processor # a
                   => a \in Range(last_chain.out)))
  /\ [][\A p \in ProcIds :
          processor_health[p].frozen /\ UnfreezeEndpoint(p) =>
            ~processor_health'[p].frozen /\ pstatus'[p] = "active"]_vars

\* a restored processor that had been frozen is back in the chain queried
\* after the restore, and a processor frozen through the endpoint is unfrozen
C9_Witness ==
  /\ regLast.op = "restore" /\ regLast.was = "frozen"
  /\ last_chain.at = regOps
  /\ last_chain.failed_processor # regLast.id
  /\ regLast.id \in Range(last_chain.out)
  /\ \E i \in 1..Len(failure_history) :
       /\ failure_history[i].failure_type = "account_frozen"
       /\ ~processor_health[failure_history[i].processor].frozen
       /\ pstatus[failure_history[i].processor] = "active"

\* C10: a FROZEN processor of the registry leaves that status only in a
\* restore_processor call for it.
C10_FrozenLeftOnlyByRestore ==
  [][\A p \in ProcIds :
       registry[p].status = "frozen" /\ registry'[p].status # "frozen" =>
         regLast'.op = "restore" /\ regLast'.id = p]_vars

\* C11: along the attempts of one routing call (same amount, urgency and
\* flags, one more failed processor at each attempt) the reasoning effort
\* chosen by either policy never goes down in minimal < low < medium < high.
C11_EffortNeverDecreases ==
  \A i, j \in 1..Len(chosen) :
    i < j => /\ EffortRank(chosen[i].engine_effort) <= EffortRank(chosen[j].engine_effort)
             /\ EffortRank(chosen[i].router_effort) <= EffortRank(chosen[j].router_effort)

\* a call whose effort was chosen for three attempts and went up on the way
C11_Witness ==
  /\ Len(chosen) = 3
  /\ EffortRank(chosen[1].engine_effort) < EffortRank(chosen[3].engine_effort)
  /\ EffortRank(chosen[1].router_effort) < EffortRank(chosen[2].router_effort)

\* C12: the engine's policy chooses HIGH whenever the amount is above the
\* large-transaction threshold, two or more processors have failed, or the
\* urgency is elevated or critical; it chooses MINIMAL only when the urgency
\* is routine, the amount is low and no processor has failed.
C12_EscalationPolicy ==
  \A i \in 1..Len(chosen) :
    /\ (\/ context.amount > EngineHighAbove
        \/ chosen[i].failed >= 2
        \/ context.urgency \in {"elevated", "critical"})
         => chosen[i].engine_effort = "high"
    /\ chosen[i].engine_effort = "minimal"
         => /\ context.urgency = "routine"
            /\ context.amount < EngineLowBelow
            /\ chosen[i].failed = 0

\* C13: with no processor frozen, a payment whose every attempt fails is
\* reported as failed after exactly 3 attempts, each against another processor.
C13_AllFailMeansThreeDistinctAttempts ==
  (result.payment > 0 /\ ~result.success /\ freezes = 0) =>
    /\ Len(result.attempts) = 3
    /\ {result.attempts[i].processor : i \in 1..3} = ProcIds

\* a failed payment of a run without freeze requests, tried on all three processors
C13_Witness ==
  /\ result.payment > 0 /\ ~result.success /\ freezes = 0
  /\ Len(result.attempts) = 3
  /\ result.attempts[1].role = "primary"
  /\ result.attempts[3].role = "fallback"

\* C14: when the primary attempt answers SUCCESS the call returns success
\* after that one attempt: the attempt history has length 1, no fallback is
\* attempted and processor_used is the processor that was executed.
C14_FirstSuccessIsOneAttempt ==
  [][PrimaryFinish(TRUE) =>
       /\ result'.success
       /\ Len(result'.attempts) = 1
       /\ result'.attempts[1].role = "primary"
       /\ ~result'.fallback_attempted
       /\ result'.processor_used = result'.attempts[1].processor]_vars

\* a payment answered with success after its only attempt, all processors healthy
C14_Witness ==
  /\ result.payment > 0 /\ result.success /\ freezes = 0
  /\ Len(result.attempts) = 1
  /\ ~result.fallback_attempted
  /\ result.processor_used = result.attempts[1].processor

\* the processors a PaymentResponseModel names: processor_used is its only
\* field that holds a processor id
ProcessorsNamed(r) == {r.processor_used}

\* C15: the response of a failed payment names every processor that was tried.
C15_FailureReportsEveryProcessorTried ==
  (result.payment > 0 /\ ~result.success) =>
    \A i \in 1..Len(result.attempts) : result.attempts[i].processor \in ProcessorsNamed(result)

\* the order of the processor ids as strings
IdRank == [paypal |-> 1, stripe |-> 2, visa |-> 3]

\* record a of processor p comes before record b of processor q in the order
\* fallback_priority ascending, success_rate descending, avg_response_time
\* ascending, processor id ascending
ChainBefore(p, a, q, b) ==
  \/ a.fallback_priority < b.fallback_priority
  \/ /\ a.fallback_priority = b.fallback_priority
     /\ \/ a.success_rate > b.success_rate
        \/ /\ a.success_rate = b.success_rate
           /\ \/ a.avg_response_time < b.avg_response_time
              \/ /\ a.avg_response_time = b.avg_response_time
                 /\ IdRank[p] < IdRank[q]

\* C16: the list returned by get_fallback_chain holds exactly the processors
\* that are not FROZEN and not excluded, each once, ordered by fallback_priority
\* ascending, success_rate descending, avg_response_time ascending and, for
\* records that tie on all three, by processor id.
C16_ChainOrderedWithIdTieBreak ==
  last_chain.failed_processor # "none" =>
    LET out == last_chain.out
    IN /\ Range(out) = {p \in ProcIds : /\ p # last_chain.failed_processor
                                        /\ registry[p].status # "frozen"}
       /\ \A i, j \in 1..Len(out) :
            i < j => ChainBefore(out[i], registry[out[i]], out[j], registry[out[j]])

\* C17: every confidence stored in a routing decision, by the fallback router
\* and by the decision engine, lies in [0,1].
C17_ConfidenceInUnitInterval ==
  /\ \A i \in 1..Len(router_decisions) :
       router_decisions[i].confidence_score \in 0..100
  /\ \A i \in 1..Len(returned) : returned[i].decision.confidence_score \in 0..100
  /\ \A i \in 1..Len(decision_history) : decision_history[i].confidence \in 0..100

\* C18: every log_* call returns with its event in the in-memory list, also
\* when the write to the audit file raised, and every event is in the trail of
\* its payment id.
C18_LoggingNeverFailsTheCaller ==
  /\ Len(events) = utcnow - Len(returned)
  /\ \A i \in 1..Len(events) :
       LET trail == generate_payment_audit_trail(events, events[i].payment_id)
       IN /\ ~trail.error
          /\ \E k \in 1..Len(trail.complete_timeline) : trail.complete_timeline[k] = events[i]

\* an event whose write to the audit file raised is in memory and in its trail
C18_Witness ==
  \E i \in 1..Len(events) :
    /\ events[i].id \notin Range(audit_file)
    /\ events[i] \in Range(generate_payment_audit_trail(events, events[i].payment_id).complete_timeline)

\* C19 (as stated): after any interleaving of in-flight payments, each processor's
\* failure_count equals the number of record_failure calls made for it since its
\* last record_success, and the failure history holds one entry per call.
C19_CountsSinceLastSuccess ==
  /\ \A p \in ProcIds : processor_health[p].failure_count = calls.since_success[p]
  /\ Len(failure_history) = calls.failures

\* C19 (amended): no update is lost; each processor's failure_count equals the
\* number of record_failure calls made for it since its last record_success or
\* its last unfreeze, and the failure history holds one entry per call.
C19_NoLostUpdate ==
  /\ \A p \in ProcIds : processor_health[p].failure_count = calls.since_reset[p]
  /\ Len(failure_history) = calls.failures

\* two payments are in flight at once and both have recorded a failure of the
\* same primary processor
C19_Witness ==
  /\ pc = "fallback_wait"
  /\ \E k \in 1..Len(parked) :
       /\ parked[k].pc = "fallback_wait"
       /\ parked[k].pay.decision.selected_processor = pay.decision.selected_processor
       /\ processor_health[pay.decision.selected_processor].failure_count = 2

\* C20: a snapshot returned by get_all_processor_status is a point-in-time copy:
\* the metrics read from it stay what they were when it was taken, whatever
\* the monitor does to its records afterwards.
C20_SnapshotIsPointInTimeCopy ==
  snapshot.taken =>
    \A name \in Range(MonitorNames) : ReadSnapshot(name) = snapshot.seen[name]

\* C21: the decision type of a routing context is PRIMARY when
\* previous_routing_attempts = 0, FALLBACK when 0 < previous_routing_attempts <
\* max_allowed_attempts - 1, and EMERGENCY otherwise, for every pair of attempt
\* count and max_allowed_attempts >= 1.
C21_DecisionTypeByAttemptCount ==
  \A i \in 1..Len(returned) :
    LET a == returned[i].routing_context.previous_routing_attempts
        m == returned[i].routing_context.max_allowed_attempts
        t == returned[i].decision.decision_type
    IN returned[i].oracle = "text" =>
         /\ (a = 0 => t = "primary")
         /\ (0 < a /\ a < m - 1 => t = "fallback")
         /\ (a > 0 /\ a >= m - 1 => t = "emergency")

\* a parsed decision made on the last allowed attempt, and one made before it
C21_Witness ==
  /\ \E i \in 1..Len(returned) :
       /\ returned[i].oracle = "text"
       /\ returned[i].routing_context.previous_routing_attempts > 0
       /\ returned[i].routing_context.previous_routing_attempts
            = returned[i].routing_context.max_allowed_attempts - 1
       /\ returned[i].decision.decision_type = "emergency"
  /\ \E i \in 1..Len(returned) :
       /\ returned[i].oracle = "text"
       /\ returned[i].decision.decision_type = "fallback"

\* C22: record_failure on a known processor increments its failure counter by
\* one and marks it frozen exactly when permanent is true or the failure type
\* is ACCOUNT_FROZEN; otherwise the frozen flag is left as it was.
C22_RecordFailureCountsAndFreezes ==
  [][\A pid \in ProcIds, failure_type \in FailureTypes, permanent \in BOOLEAN :
       RecordFailure(pid, failure_type, permanent) =>
         /\ processor_health'[pid].failure_count = processor_health[pid].failure_count + 1
         /\ processor_health'[pid].frozen =
              IF permanent \/ failure_type = "account_frozen"
              THEN TRUE ELSE processor_health[pid].frozen
         /\ \A q \in ProcIds \ {pid} : processor_health'[q] = processor_health[q]]_vars

\* one processor was frozen by a permanent failure of another type, another took
\* a non-permanent failure and is not frozen
C22_Witness ==
  /\ Len(failure_history) = 2
  /\ failure_history[1].permanent /\ failure_history[1].failure_type = "declined"
  /\ failure_history[1].processor \in ProcIds
  /\ processor_health[failure_history[1].processor].frozen
  /\ ~failure_history[2].permanent /\ failure_history[2].failure_type = "network_error"
  /\ failure_history[2].processor \in ProcIds
  /\ ~processor_health[failure_history[2].processor].frozen
  /\ processor_health[failure_history[2].processor].failure_count = 1

\* C23: record_failure and record_success called with a processor id that is
\* not registered are a no-op: the health book and the failure history used for
\* later routing decisions and analytics are unchanged.
C23_UnknownProcessorIsNoOp ==
  [][\A pid \in RegInputs \ ProcIds :
       /\ (\E failure_type \in FailureTypes, permanent \in BOOLEAN :
             RecordFailure(pid, failure_type, permanent))
            => UNCHANGED <<processor_health, failure_history>>
       /\ RecordSuccess(pid) => UNCHANGED <<processor_health, failure_history>>]_vars

\* C24: a routing decision is never mutated after it has been recorded: every
\* decision stored in routing_decisions has the same fields at every later
\* point, including after a fallback attempt succeeds.
C24_RecordedDecisionsNeverMutated ==
  [][\A i \in 1..Len(routing_decisions) :
       /\ i <= Len(routing_decisions')
       /\ routing_decisions'[i] = routing_decisions[i]]_vars

\* C25: for every routing decision logged for a payment id, the audit trail of
\* that payment contains the decision's rationale text with the reasoning_effort
\* and verbosity used, whether or not the decision carries token metadata. The
\* trail carries the rationale and the parameters of an event in its
\* gpt5_reasoning_chain entry only; a timeline entry is the timestamp, type,
\* processor and one-line summary of the event.
C25_TrailKeepsRationaleOfEveryDecision ==
  \A i \in 1..Len(events) :
    events[i].event_type = "payment_routing" =>
      LET trail == generate_payment_audit_trail(events, events[i].payment_id)
      IN \E k \in 1..Len(trail.gpt5_reasoning_chain) :
           trail.gpt5_reasoning_chain[k].id = events[i].id

\* C26: every failed payment attempt within a routing call, primary or
\* fallback, is followed by a record_failure for the processor that failed: once
\* a payment has ended FAILED, each processor it was attempted on has at least
\* as many recorded payment failures as attempts made on it.
C26_EveryFailedAttemptIsRecorded ==
  result.status = "failed" =>
    \A p \in ProcIds :
      Len(SelectSeq(failure_history,
                    LAMBDA f : f.processor = p /\ f.failure_type = "declined"))
        >= Len(SelectSeq(result.attempts, LAMBDA a : a.processor = p))

\* C27: in every reachable state each processor's health metrics stay within
\* their declared ranges, success_rate in [0,1] and freeze_risk_score in [0,10]
\* (success_rate is kept in units of 0.0001 and freeze_risk_score in tenths).
C27_HealthMetricsWithinRanges ==
  \A ref \in DOMAIN heap :
    /\ heap[ref].success_rate >= 0 /\ heap[ref].success_rate <= 10000
    /\ heap[ref].freeze_risk_score >= 0 /\ heap[ref].freeze_risk_score <= 100

\* C28: record_success is called for a processor only after a payment attempt
\* against it returned SUCCESS; for every other PaymentStatus returned by the
\* primary attempt the processor's failure counter is not reset and its
\* last_success is not updated.
C28_SuccessRecordedOnlyAfterSuccess ==
  [][\A status \in PaymentStatuses \ {"success"} :
       PrimaryReturns(status) =>
         \A p \in ProcIds :
           /\ processor_health'[p].failure_count >= processor_health[p].failure_count
           /\ processor_health'[p].last_success = processor_health[p].last_success]_vars

\* C29: under any interleaving of freeze and unfreeze requests with an in-flight
\* payment, every fallback attempt starts against a processor that is ACTIVE at
\* the moment the attempt starts; a fallback processor that is not ACTIVE at
\* that moment is skipped.
C29_FallbackAttemptsStartOnActive ==
  /\ \A i \in 1..Len(pay.attempts) :
       pay.attempts[i].role = "fallback" => pay.attempts[i].active
  /\ \A i \in 1..Len(result.attempts) :
       result.attempts[i].role = "fallback" => result.attempts[i].active

\* stripe was frozen while the payment was in flight and the fallback loop
\* passed over it: a later processor of the chain is being attempted
C29_Witness ==
  /\ pc = "fallback_wait"
  /\ pstatus["stripe"] = "failed"
  /\ \E i \in 1..(pay.fbIdx - 1) : pay.decision.fallback_chain[i] = "stripe"
  /\ \A i \in 1..Len(pay.attempts) : pay.attempts[i].processor # "stripe"
  /\ pay.attempts[Len(pay.attempts)].role = "fallback"

\* C30: a background health update step never changes any processor's status,
\* changes success_rate and avg_response_time only for HEALTHY processors and
\* leaves those within [0.95, 0.999] and [100, 1000]; the metrics of Degraded,
\* Frozen and Maintenance processors are left unchanged (success_rate in 0.001).
C30_UpdateTouchesHealthyOnly ==
  [][UpdateHealthMetrics =>
       \A p \in ProcIds :
         /\ registry'[p].status = registry[p].status
         /\ registry'[p].failure_count_24h = registry[p].failure_count_24h
         /\ registry'[p].freeze_risk_score = registry[p].freeze_risk_score
         /\ IF registry[p].status = "healthy"
            THEN /\ registry'[p].success_rate >= 950 /\ registry'[p].success_rate <= 999
                 /\ registry'[p].avg_response_time >= 100
                 /\ registry'[p].avg_response_time <= 1000
            ELSE registry'[p] = registry[p]]_vars

\* an update step has run over a degraded stripe, whose metrics are those the
\* degradation left, and a healthy paypal, whose success_rate it has moved
C30_Witness ==
  /\ regLast.op = "update"
  /\ registry["stripe"].status = "degraded"
  /\ registry["stripe"].success_rate = InitialRegistry["stripe"].success_rate - 100
  /\ registry["stripe"].avg_response_time = InitialRegistry["stripe"].avg_response_time + 200
  /\ registry["paypal"].status = "healthy"
  /\ registry["paypal"].success_rate # InitialRegistry["paypal"].success_rate

====
